---- MODULE Spec2Model ----
(***************************************************************************)
(* A model of src/app.js: an Express server with four routes that proxy    *)
(* the Stripe API through two clients, stripeLive and stripeTest.          *)
(*                                                                         *)
(* One request is followed from its arrival to the settling of every       *)
(* promise it started.  The handlers share no state between requests, so   *)
(* a behaviour of the model is the life of one arbitrary request.  Every   *)
(* provider call is an invocation (recorded in the log of the client it    *)
(* was made on) followed, in a later step, by its return: a value drawn    *)
(* from a small set, or a rejection carrying a provider error message.     *)
(*                                                                         *)
(* JavaScript strings that the code inspects character by character        *)
(* (Number(val), .min(1)) are sequences of one-character strings; null and *)
(* undefined are the value Undefined.                                      *)
(***************************************************************************)
EXTENDS Integers, Sequences, FiniteSets, TLC

VARIABLES
    route,      \* the handler that received the request: "none" before it arrives
    body,       \* req.body of a POST request
    hpc,        \* where the route handler is suspended
    parsed,     \* the value createPaymentLinkSchema.parse returned
    product,    \* const product (its id)
    price,      \* const price (its id)
    intents,    \* paymentIntents.data
    tasks,      \* one async callback per element of successfulPayments
    error,      \* the exception the handler's catch block caught
    calls,      \* per Stripe client, the calls the route handler invoked on it, in order
    responses   \* what was sent on res, in order

vars == <<route, body, hpc, parsed, product, price, intents, tasks, error, calls, responses>>

----------------------------------------------------------------------------
(* Bounds of the model. *)

\* longest unitAmount / quantity string of a request body
MaxLen == 2
\* most payment intents paymentIntents.list returns
MaxIntents == 2
\* most line items of a checkout session
MaxItems == 1
\* most payment intents listed when buyer contact data varies (SpecContacts)
MaxContactIntents == 1

----------------------------------------------------------------------------
(* Values. *)

Undefined == "<undefined>"

Modes == {"live", "test"}

\* The characters request strings are built from: two digits, a sign and a
\* letter, so that zero, positive, negative and non-numeric strings all occur.
Chars == {"0", "1", "-", "a"}

StringsUpTo(n) == UNION {[1..k -> Chars] : k \in 0..n}

\* A JSON value of a request body: absent, a number, or a string.
JUndefined == [t |-> "undefined", s |-> <<>>]
JNumber == [t |-> "number", s |-> <<>>]
JString(s) == [t |-> "string", s |-> s]

ProviderMessages == {"api_error", "rate_limit"}

----------------------------------------------------------------------------
(* Number(val) on a string: the empty string is 0, an optionally signed    *)
(* run of decimal digits is its value, anything else is NaN.               *)

NaN == [nan |-> TRUE, v |-> 0]
Num(n) == [nan |-> FALSE, v |-> n]

IsDigit(c) == c \in {"0", "1", "2", "3", "4", "5", "6", "7", "8", "9"}

DigitValue(c) ==
    CASE c = "0" -> 0 [] c = "1" -> 1 [] c = "2" -> 2 [] c = "3" -> 3
      [] c = "4" -> 4 [] c = "5" -> 5 [] c = "6" -> 6 [] c = "7" -> 7
      [] c = "8" -> 8 [] c = "9" -> 9

AllDigits(s) == \A i \in 1..Len(s) : IsDigit(s[i])

RECURSIVE DigitsValue(_)
DigitsValue(s) ==
    IF s = <<>> THEN 0
    ELSE 10 * DigitsValue(SubSeq(s, 1, Len(s) - 1)) + DigitValue(s[Len(s)])

ToNumber(s) ==
    IF s = <<>> THEN Num(0)
    ELSE IF AllDigits(s) THEN Num(DigitsValue(s))
    ELSE IF s[1] = "-" /\ Len(s) > 1 /\ AllDigits(Tail(s))
         THEN Num(0 - DigitsValue(Tail(s)))
    ELSE NaN

----------------------------------------------------------------------------
(* createPaymentLinkSchema.                                                *)

Issue(f, m) == [field |-> f, message |-> m]

Threw(m) == [threw |-> TRUE, message |-> m, value |-> 0]
Returned(n) == [threw |-> FALSE, message |-> "", value |-> n]

\* z.string().min(1, msg) on the value of key f: the issues it raises.
StringMin1(f, v, msg) ==
    IF v.t = "undefined" THEN <<Issue(f, "Required")>>
    ELSE IF v.t # "string" THEN <<Issue(f, "Expected string, received number")>>
    ELSE IF Len(v.s) < 1 THEN <<Issue(f, msg)>>
    ELSE <<>>

\* z.string().optional()
StringOptional(f, v) ==
    IF v.t \in {"undefined", "string"} THEN <<>>
    ELSE <<Issue(f, "Expected string, received number")>>

\* The transform of unitAmount with the comparison num < 0.
UnitAmountTransform_AcceptsZero(val) ==
    LET num == ToNumber(val)
    IN  IF num.nan \/ num.v < 0
        THEN Threw("Unit amount must be a positive number")
        ELSE Returned(num.v)

\* The transform of unitAmount.
UnitAmountTransform(val) ==
    LET num == ToNumber(val)
    IN  IF num.nan \/ num.v <= 0
        THEN Threw("Unit amount must be a positive number")
        ELSE Returned(num.v)

\* The default of quantity were it '10'.
QuantityDefault_Ten(v) == IF v.t = "undefined" THEN JString(<<"1", "0">>) ELSE v

\* The default of quantity.
QuantityDefault(v) == IF v.t = "undefined" THEN JString(<<"1">>) ELSE v

\* The transform of quantity.
QuantityTransform(val) ==
    LET num == ToNumber(val)
    IN  IF num.nan \/ num.v < 1
        THEN Threw("Quantity must be at least 1")
        ELSE Returned(num.v)

\* A transform runs only on a value its inner schema accepted without issue;
\* what it throws is not caught by the schema and leaves parse as it is.
UnitAmountField(v) ==
    IF StringMin1("unitAmount", v, "Unit amount is required") # <<>>
    THEN Returned(0)
    ELSE UnitAmountTransform(v.s)

QuantityField(v) ==
    IF StringOptional("quantity", v) # <<>>
    THEN Returned(0)
    ELSE QuantityTransform(QuantityDefault(v).s)

\* createPaymentLinkSchema.parse(req.body): the keys are parsed in the order
\* of the schema; the first transform that throws ends the parse with its
\* Error, otherwise the issues collected make a ZodError, otherwise the
\* parsed object is returned.
SchemaParse(b) ==
    LET ua == UnitAmountField(b.unitAmount)
        q  == QuantityField(b.quantity)
        issues ==
            StringMin1("productName", b.productName, "Product name is required")
            \o StringOptional("productDescription", b.productDescription)
            \o StringMin1("unitAmount", b.unitAmount, "Unit amount is required")
            \o StringMin1("currency", b.currency, "Currency is required")
            \o StringOptional("quantity", b.quantity)
        none == [productName |-> <<>>, productDescription |-> JUndefined,
                 unitAmount |-> 0, currency |-> <<>>, quantity |-> 0]
    IN  IF ua.threw
        THEN [kind |-> "Error", message |-> ua.message, errors |-> <<>>, data |-> none]
        ELSE IF q.threw
        THEN [kind |-> "Error", message |-> q.message, errors |-> <<>>, data |-> none]
        ELSE IF issues # <<>>
        THEN [kind |-> "ZodError", message |-> "", errors |-> issues, data |-> none]
        ELSE [kind |-> "ok", message |-> "", errors |-> <<>>,
              data |-> [productName |-> b.productName.s,
                        productDescription |-> b.productDescription,
                        unitAmount |-> ua.value,
                        currency |-> b.currency.s,
                        quantity |-> q.value]]

NoParse == [kind |-> "none", message |-> "", errors |-> <<>>,
            data |-> [productName |-> <<>>, productDescription |-> JUndefined,
                      unitAmount |-> 0, currency |-> <<>>, quantity |-> 0]]

----------------------------------------------------------------------------
(* Request bodies.                                                         *)

NameValues == {JUndefined, JString(<<>>), JString(<<"a">>)}
DescriptionValues == {JUndefined, JNumber, JString(<<"a">>)}
NumericValues == {JUndefined, JNumber} \cup {JString(s) : s \in StringsUpTo(MaxLen)}

Bodies ==
    [productName : NameValues,
     productDescription : DescriptionValues,
     unitAmount : NumericValues,
     currency : NameValues,
     quantity : NumericValues]

NoBody ==
    [productName |-> JUndefined, productDescription |-> JUndefined,
     unitAmount |-> JUndefined, currency |-> JUndefined, quantity |-> JUndefined]

----------------------------------------------------------------------------
(* What the provider returns to the report handlers.                       *)

Statuses == {"succeeded", "canceled"}

\* intent?.charges?.data?.[0] with its billing_details
NoCharge == [present |-> FALSE, email |-> Undefined, name |-> Undefined]
Charge(e, n) == [present |-> TRUE, email |-> e, name |-> n]

\* sessionWithItems.customer_details
NoDetails == [present |-> FALSE, email |-> Undefined, name |-> Undefined, phone |-> Undefined]
Details(e, n, p) == [present |-> TRUE, email |-> e, name |-> n, phone |-> p]

\* The i-th listed intent.
Intent(i, k) ==
    [id |-> i, amount |-> 100 * i, currency |-> "usd", status |-> k.status,
     charge |-> k.charge]

IntentLists(n, charges) ==
    UNION {{[i \in 1..len |-> Intent(i, ks[i])] :
                ks \in [1..len -> [status : Statuses, charge : charges]]} :
           len \in 0..n}

\* checkout.sessions.list: null, or a list of at most one session.
SessionLists(i) ==
    {[isNull |-> TRUE, data |-> <<>>],
     [isNull |-> FALSE, data |-> <<>>],
     [isNull |-> FALSE, data |-> <<[id |-> i]>>]}

\* line_items.data of the session of intent i: item j has quantity j and
\* the price of product j.
LineItems(n) == [j \in 1..n |-> [quantity |-> j, product |-> j]]

NoSession == [customer_details |-> NoDetails, hasItems |-> FALSE, line_items |-> <<>>]

SessionsWithItems(details, maxItems) ==
    {[customer_details |-> d, hasItems |-> FALSE, line_items |-> <<>>] : d \in details}
    \cup {[customer_details |-> d, hasItems |-> TRUE, line_items |-> LineItems(n)] :
             d \in details, n \in 0..maxItems}

Products == {[name |-> "widget", description |-> d] : d \in {Undefined, "blue"}}

\* The data of the fan-out: every kind of answer, one buyer.
FanOutData ==
    [lists |-> IntentLists(MaxIntents, {Charge("a@b.com", Undefined)}),
     details |-> {NoDetails},
     maxItems |-> MaxItems]

\* The data of the buyer contacts: every combination of the contact fields.
ContactData ==
    [lists |-> IntentLists(MaxContactIntents,
                   {NoCharge} \cup {Charge(e, n) : e \in {Undefined, "a@b.com"},
                                                   n \in {Undefined, "Ann"}}),
     details |-> {NoDetails}
                 \cup {Details(e, n, p) : e \in {Undefined, "", "s@x.com"},
                                          n \in {Undefined, "Sam"},
                                          p \in {Undefined, "555"}},
     maxItems |-> 0]

----------------------------------------------------------------------------
(* The Stripe clients and the response.                                    *)

\* The client of a test route that was left calling stripeLive.
Client_Live(mode) == "live"

\* The client a handler calls: stripeLive in the two routes without /test,
\* stripeTest in the two routes with it.
Client(mode) == IF mode = "live" THEN "live" ELSE "test"

Invoke(c, call) == [calls EXCEPT ![c] = Append(@, call)]

\* The same for the calls cs of the callback t of successfulPayments.map,
\* which are logged with the callback: the callbacks run interleaved, and the
\* order of the calls of two of them is not kept.
TaskInvoke(t, c, cs) == [t EXCEPT !.calls[c] = @ \o cs]

\* res.status(s).json(b)
Send(s, b) == Append(responses, [status |-> s, body |-> b])

ProductIds == {"prod_1", "prod_2"}
PriceIds == {"price_1", "price_2"}
PaymentLinks == {[id |-> "plink_1", url |-> "https://buy.stripe.com/1"]}

\* a || b
Truthy(v) == v \notin {Undefined, ""}
Or(a, b) == IF Truthy(a) THEN a ELSE b

\* What a catch block caught: a ZodError or an Error thrown by parse, or
\* the error a call of the provider (from) rejected with.
NoError == [kind |-> "none", from |-> "", message |-> ""]
Caught(kind, from, message) == [kind |-> kind, from |-> from, message |-> message]

----------------------------------------------------------------------------
Init ==
    /\ route = [kind |-> "none", mode |-> "live"]
    /\ body = NoBody
    /\ hpc = "idle"
    /\ parsed = NoParse
    /\ product = Undefined
    /\ price = Undefined
    /\ intents = <<>>
    /\ tasks = <<>>
    /\ error = NoError
    /\ calls = [m \in Modes |-> <<>>]
    /\ responses = <<>>

----------------------------------------------------------------------------
(* The create-payment-link handlers.                                       *)

\* The catch block answering 500 with a message of its own.
CreateCatch_Generic(kind, message, errors) ==
    IF kind = "ZodError"
    THEN Send(400, [message |-> "Validation failed", errors |-> errors])
    ELSE Send(500, [error |-> "Internal Server Error"])

\* The catch block of the create-payment-link handlers.
CreateCatch(kind, message, errors) ==
    IF kind = "ZodError"
    THEN Send(400, [message |-> "Validation failed", errors |-> errors])
    ELSE Send(500, [error |-> message])

\* The body of a create-payment-link handler up to its first await.
CreateHandler(mode, b) ==
    /\ route' = [kind |-> "create", mode |-> mode]
    /\ body' = b
    /\ LET p == SchemaParse(b)
       IN  /\ parsed' = p
           /\ IF p.kind = "ok"
              THEN /\ calls' = Invoke(Client(mode),
                          [op |-> "products.create",
                           name |-> p.data.productName,
                           description |-> p.data.productDescription])
                   /\ hpc' = "products.create"
                   /\ UNCHANGED <<error, responses>>
              ELSE /\ error' = Caught(p.kind, "parse", p.message)
                   /\ responses' = CreateCatch(p.kind, p.message, p.errors)
                   /\ hpc' = "done"
                   /\ UNCHANGED calls
    /\ UNCHANGED <<product, price, intents, tasks>>

\* POST /api/v1/create-payment-link and POST /api/v1/test/create-payment-link
PostCreatePaymentLink ==
    /\ hpc = "idle"
    /\ \E mode \in Modes, b \in Bodies : CreateHandler(mode, b)

\* The call prices.create of the handler.
PricesCreate(id) ==
    [op |-> "prices.create",
     unit_amount |-> parsed.data.unitAmount,
     currency |-> parsed.data.currency,
     product |-> id,
     tax_behavior |-> "exclusive"]

\* products.create returns: the handler goes on to prices.create.
ProductsCreateReturns ==
    /\ hpc = "products.create"
    /\ \E id \in ProductIds :
          /\ product' = id
          /\ calls' = Invoke(Client(route.mode), PricesCreate(id))
    /\ hpc' = "prices.create"
    /\ UNCHANGED <<route, body, parsed, price, intents, tasks, error, responses>>

\* The call paymentLinks.create of the handler.
PaymentLinksCreate(id) ==
    [op |-> "paymentLinks.create",
     line_items |-> <<[price |-> id, quantity |-> parsed.data.quantity]>>,
     automatic_tax |-> TRUE,
     phone_number_collection |-> TRUE]

\* prices.create returns: the handler goes on to paymentLinks.create.
PricesCreateReturns ==
    /\ hpc = "prices.create"
    /\ \E id \in PriceIds :
          /\ price' = id
          /\ calls' = Invoke(Client(route.mode), PaymentLinksCreate(id))
    /\ hpc' = "paymentLinks.create"
    /\ UNCHANGED <<route, body, parsed, product, intents, tasks, error, responses>>

\* The body of the 201 response with the price it was made for.
Created_WithPrice(paymentLink) ==
    [paymentLinkId |-> paymentLink.id, url |-> paymentLink.url, priceId |-> price]

\* The body of the 201 response.
Created(paymentLink) == [paymentLinkId |-> paymentLink.id, url |-> paymentLink.url]

\* paymentLinks.create returns: 201.
PaymentLinksCreateReturns ==
    /\ hpc = "paymentLinks.create"
    /\ \E paymentLink \in PaymentLinks : responses' = Send(201, Created(paymentLink))
    /\ hpc' = "done"
    /\ UNCHANGED <<route, body, parsed, product, price, intents, tasks, error, calls>>

\* The awaited call of a create handler rejects: the catch block.
CreateCallFails ==
    /\ hpc \in {"products.create", "prices.create", "paymentLinks.create"}
    /\ \E m \in ProviderMessages :
          /\ error' = Caught("StripeError", hpc, m)
          /\ responses' = CreateCatch("StripeError", m, <<>>)
    /\ hpc' = "done"
    /\ UNCHANGED <<route, body, parsed, product, price, intents, tasks, calls>>

----------------------------------------------------------------------------
(* The successful-payments handlers.                                       *)

NoRecord ==
    [id |-> 0, amount |-> 0, currency |-> "", status |-> "",
     buyerEmail |-> Undefined, buyerName |-> Undefined, buyerPhone |-> Undefined,
     itemsBought |-> <<>>]

NoItemDetail == [productName |-> "", quantity |-> 0, productDescription |-> ""]

\* The async callback of successfulPayments.map for one intent, suspended
\* at its first await.
NewTask(intent) ==
    [intent |-> intent,
     pc |-> "sessions.list",
     session |-> [isNull |-> TRUE, data |-> <<>>],
     sessionWithItems |-> NoSession,
     buyerEmail |-> Undefined, buyerName |-> Undefined, buyerPhone |-> Undefined,
     items |-> <<>>,
     value |-> [isNull |-> TRUE, record |-> NoRecord],
     calls |-> [m \in Modes |-> <<>>]]

\* successfulPayments without the filter.
SuccessfulPayments_Unfiltered(data) == data

\* paymentIntents.data.filter(intent => intent.status === 'succeeded')
SuccessfulPayments(data) == SelectSeq(data, LAMBDA intent : intent.status = "succeeded")

\* buyerEmail without the charge's billing_details.
BuyerEmail_SessionOnly(s, charge) == Or(s.customer_details.email, "N/A")

\* const buyerEmail, buyerName, buyerPhone
BuyerEmail(s, charge) == Or(Or(s.customer_details.email, charge.email), "N/A")
BuyerName(s, charge) == Or(Or(s.customer_details.name, charge.name), "N/A")
BuyerPhone(s, charge) == Or(s.customer_details.phone, "N/A")

\* sessionWithItems?.line_items?.data, or [] in its place
ItemsOf(s) == IF s.hasItems THEN s.line_items ELSE <<>>

\* What the callback of line_items.data.map returns.
ItemDetail(item, p) ==
    [productName |-> p.name,
     quantity |-> item.quantity,
     productDescription |-> Or(p.description, "No description available")]

\* What the callback of successfulPayments.map returns.  Its field created,
\* the ISO string of intent.created, is left out: nothing below reads it.
PaymentRecord(t, itemDetails) ==
    [id |-> t.intent.id,
     amount |-> t.intent.amount,
     currency |-> t.intent.currency,
     status |-> t.intent.status,
     buyerEmail |-> t.buyerEmail,
     buyerName |-> t.buyerName,
     buyerPhone |-> t.buyerPhone,
     itemsBought |-> itemDetails]

\* paymentStatuses.filter(Boolean)
Report(T) ==
    LET kept == SelectSeq(T, LAMBDA t : ~t.value.isNull)
    IN  [k \in 1..Len(kept) |-> kept[k].value.record]

\* The catch block of the successful-payments handlers.
ReportCatch(message) == Send(500, [error |-> message])

\* A handler that went on at every settling of a callback.
AwaitingAll_Ever == hpc \in {"Promise.all", "done"}

\* The handler is suspended at await Promise.all(...): the promise is pending.
AwaitingAll == hpc = "Promise.all"

\* Promise.all rejects with the first rejection: the catch block.
Reject(from, m) ==
    IF AwaitingAll
    THEN /\ error' = Caught("StripeError", from, m)
         /\ responses' = ReportCatch(m)
         /\ hpc' = "done"
    ELSE UNCHANGED <<hpc, error, responses>>

\* Promise.all fulfils once every callback has: 200.  T is the tasks after
\* the step.
Fulfil(T) ==
    IF AwaitingAll /\ \A i \in DOMAIN T : T[i].pc = "fulfilled"
    THEN /\ responses' = Send(200, [successfulPayments |-> Report(T)])
         /\ hpc' = "done"
         /\ UNCHANGED error
    ELSE UNCHANGED <<hpc, error, responses>>

PageLimit == 100

\* GET /api/v1/successful-payments and GET /api/v1/test/successful-payments
GetSuccessfulPayments ==
    /\ hpc = "idle"
    /\ \E mode \in Modes :
          /\ route' = [kind |-> "report", mode |-> mode]
          /\ calls' = Invoke(Client(mode),
                 [op |-> "paymentIntents.list", limit |-> PageLimit,
                  expand |-> "data.charges.data"])
    /\ hpc' = "paymentIntents.list"
    /\ UNCHANGED <<body, parsed, product, price, intents, tasks, error, responses>>

\* paymentIntents.list returns: every callback runs to its first await, and
\* the handler awaits them all.
PaymentIntentsListReturns(D) ==
    /\ hpc = "paymentIntents.list"
    /\ \E data \in D.lists :
          LET successfulPayments == SuccessfulPayments(data)
              T == [k \in 1..Len(successfulPayments) |->
                      TaskInvoke(NewTask(successfulPayments[k]), Client(route.mode),
                          <<[op |-> "checkout.sessions.list",
                             payment_intent |-> successfulPayments[k].id]>>)]
          IN  /\ intents' = data
              /\ tasks' = T
              /\ IF T = <<>>
                 THEN /\ responses' = Send(200, [successfulPayments |-> Report(T)])
                      /\ hpc' = "done"
                 ELSE /\ hpc' = "Promise.all"
                      /\ UNCHANGED responses
    /\ UNCHANGED <<route, body, parsed, product, price, error, calls>>

\* paymentIntents.list rejects: the catch block.
PaymentIntentsListFails ==
    /\ hpc = "paymentIntents.list"
    /\ \E m \in ProviderMessages :
          /\ error' = Caught("StripeError", hpc, m)
          /\ responses' = ReportCatch(m)
    /\ hpc' = "done"
    /\ UNCHANGED <<route, body, parsed, product, price, intents, tasks, calls>>

\* checkout.sessions.list of task i returns: the callback returns null, or
\* goes on to checkout.sessions.retrieve.
SessionsListReturns(i) ==
    /\ tasks[i].pc = "sessions.list"
    /\ \E session \in SessionLists(tasks[i].intent.id) :
          IF session.isNull \/ session.data = <<>>
          THEN LET T == [tasks EXCEPT ![i].session = session, ![i].pc = "fulfilled"]
               IN  /\ tasks' = T
                   /\ Fulfil(T)
          ELSE /\ tasks' = [tasks EXCEPT ![i] =
                      TaskInvoke([@ EXCEPT !.session = session, !.pc = "sessions.retrieve"],
                          Client(route.mode),
                          <<[op |-> "checkout.sessions.retrieve",
                             id |-> session.data[1].id, expand |-> "line_items"]>>)]
               /\ UNCHANGED <<hpc, error, responses>>
    /\ UNCHANGED <<route, body, parsed, product, price, intents, calls>>

\* An awaited call of task i rejects: the callback rejects.
TaskCallFails(i, at) ==
    /\ tasks[i].pc = at
    /\ \E m \in ProviderMessages :
          /\ tasks' = [tasks EXCEPT ![i].pc = "rejected"]
          /\ Reject(at, m)
    /\ UNCHANGED <<route, body, parsed, product, price, intents, calls>>

\* checkout.sessions.list of task i rejects.
SessionsListFails(i) == TaskCallFails(i, "sessions.list")

\* checkout.sessions.retrieve of task i rejects.
SessionsRetrieveFails(i) == TaskCallFails(i, "sessions.retrieve")

\* checkout.sessions.retrieve of task i returns: the buyer's contact fields
\* are taken, and products.retrieve is called for every line item at once.
SessionsRetrieveReturns(i, D) ==
    /\ tasks[i].pc = "sessions.retrieve"
    /\ \E s \in SessionsWithItems(D.details, D.maxItems) :
          LET charge == tasks[i].intent.charge
              items == ItemsOf(s)
              t == [tasks[i] EXCEPT
                       !.sessionWithItems = s,
                       !.buyerEmail = BuyerEmail(s, charge),
                       !.buyerName = BuyerName(s, charge),
                       !.buyerPhone = BuyerPhone(s, charge),
                       !.items = [j \in 1..Len(items) |->
                                     [state |-> "pending", detail |-> NoItemDetail]]]
          IN  IF items = <<>>
              THEN LET T == [tasks EXCEPT ![i] =
                                [t EXCEPT !.pc = "fulfilled",
                                          !.value = [isNull |-> FALSE,
                                                     record |-> PaymentRecord(t, <<>>)]]]
                   IN  /\ tasks' = T
                       /\ Fulfil(T)
              ELSE /\ tasks' = [tasks EXCEPT ![i] =
                          TaskInvoke([t EXCEPT !.pc = "products.retrieve"],
                              Client(route.mode),
                              [j \in 1..Len(items) |->
                                 [op |-> "products.retrieve", id |-> items[j].product]])]
                   /\ UNCHANGED <<hpc, error, responses>>
    /\ UNCHANGED <<route, body, parsed, product, price, intents, calls>>

\* products.retrieve for line item j of task i returns: the item's details;
\* with the last of them the callback returns the payment's record.
ProductsRetrieveReturns(i, j) ==
    /\ tasks[i].items[j].state = "pending"
    /\ \E p \in Products :
          LET item == ItemsOf(tasks[i].sessionWithItems)[j]
              items == [tasks[i].items EXCEPT
                           ![j] = [state |-> "fulfilled", detail |-> ItemDetail(item, p)]]
              itemDetails == [k \in 1..Len(items) |-> items[k].detail]
          IN  IF /\ tasks[i].pc = "products.retrieve"
                 /\ \A k \in 1..Len(items) : items[k].state = "fulfilled"
              THEN LET T == [tasks EXCEPT
                                ![i].items = items,
                                ![i].pc = "fulfilled",
                                ![i].value = [isNull |-> FALSE,
                                              record |-> PaymentRecord(tasks[i], itemDetails)]]
                   IN  /\ tasks' = T
                       /\ Fulfil(T)
              ELSE /\ tasks' = [tasks EXCEPT ![i].items = items]
                   /\ UNCHANGED <<hpc, error, responses>>
    /\ UNCHANGED <<route, body, parsed, product, price, intents, calls>>

\* products.retrieve for line item j of task i rejects: the inner
\* Promise.all rejects with the first such rejection, and the callback with it.
ProductsRetrieveFails(i, j) ==
    /\ tasks[i].items[j].state = "pending"
    /\ \E m \in ProviderMessages :
          LET items == [tasks[i].items EXCEPT ![j].state = "rejected"]
          IN  IF tasks[i].pc = "products.retrieve"
              THEN /\ tasks' = [tasks EXCEPT ![i].items = items,
                                             ![i].pc = "rejected"]
                   /\ Reject("products.retrieve", m)
              ELSE /\ tasks' = [tasks EXCEPT ![i].items = items]
                   /\ UNCHANGED <<hpc, error, responses>>
    /\ UNCHANGED <<route, body, parsed, product, price, intents, calls>>

----------------------------------------------------------------------------
(* The specifications.                                                     *)

\* A call of the provider returns or rejects, over the data D.
ProviderAnswers(D) ==
    \/ ProductsCreateReturns
    \/ PricesCreateReturns
    \/ PaymentLinksCreateReturns
    \/ CreateCallFails
    \/ PaymentIntentsListReturns(D)
    \/ PaymentIntentsListFails
    \/ \E i \in DOMAIN tasks : SessionsListReturns(i)
    \/ \E i \in DOMAIN tasks : SessionsListFails(i)
    \/ \E i \in DOMAIN tasks : SessionsRetrieveReturns(i, D)
    \/ \E i \in DOMAIN tasks : SessionsRetrieveFails(i)
    \/ \E i \in DOMAIN tasks : \E j \in DOMAIN tasks[i].items : ProductsRetrieveReturns(i, j)
    \/ \E i \in DOMAIN tasks : \E j \in DOMAIN tasks[i].items : ProductsRetrieveFails(i, j)

Next ==
    \/ PostCreatePaymentLink
    \/ GetSuccessfulPayments
    \/ ProviderAnswers(FanOutData)

\* Any request, the report handlers over the data of the fan-out.
Spec == Init /\ [][Next]_vars

\* The sessions of ContactData have no line items: no product is retrieved.
NextContacts ==
    \/ GetSuccessfulPayments
    \/ PaymentIntentsListReturns(ContactData)
    \/ PaymentIntentsListFails
    \/ \E i \in DOMAIN tasks : SessionsListReturns(i)
    \/ \E i \in DOMAIN tasks : SessionsListFails(i)
    \/ \E i \in DOMAIN tasks : SessionsRetrieveReturns(i, ContactData)
    \/ \E i \in DOMAIN tasks : SessionsRetrieveFails(i)

\* The report handlers over the data of the buyer contacts.
SpecContacts == Init /\ [][NextContacts]_vars

\* Every provider call eventually returns or fails.
FairSpec == Spec /\ WF_vars(ProviderAnswers(FanOutData))

----------------------------------------------------------------------------
(* Properties.                                                             *)

\* The log of the route handler's own calls on the client of its mode.
Log == calls[route.mode]
Ops(log) == [k \in 1..Len(log) |-> log[k].op]
CreateOps == <<"products.create", "prices.create", "paymentLinks.create">>
IsPrefix(a, b) == Len(a) <= Len(b) /\ a = SubSeq(b, 1, Len(a))

NoCalls ==
    \A c \in Modes : calls[c] = <<>> /\ \A i \in DOMAIN tasks : tasks[i].calls[c] = <<>>

\* A string field that is required: absent, not a string, or empty.
MissingOrEmpty(v) == v.t # "string" \/ v.s = <<>>

\* The constraints of section 3 on a creation request, in the terms of the
\* request body.
Violates(b) ==
    \/ MissingOrEmpty(b.productName)
    \/ MissingOrEmpty(b.currency)
    \/ b.productDescription.t = "number"
    \/ MissingOrEmpty(b.unitAmount)
    \/ ToNumber(b.unitAmount.s).nan
    \/ ToNumber(b.unitAmount.s).v <= 0
    \/ b.quantity.t = "number"
    \/ b.quantity.t = "string"
          /\ (ToNumber(b.quantity.s).nan \/ ToNumber(b.quantity.s).v < 1)

\* C1: in a report request whose listing succeeded, the failure of one
\* intent's resolution never makes the request answer 500.
C1_FailureIsolatedPerRecord ==
    (route.kind = "report" /\ \E i \in DOMAIN tasks : tasks[i].pc = "rejected")
        => \A k \in 1..Len(responses) : responses[k].status # 500

\* C2: a creation request whose unitAmount is "0" or negative, its other
\* fields valid, is answered 400 with an error entry for the field
\* unitAmount, and no provider call is made.
C2_NonPositiveUnitAmountIs400 ==
    (/\ route.kind = "create"
     /\ body.unitAmount \in {JString(<<"0">>), JString(<<"-", "1">>)}
     /\ ~Violates([body EXCEPT !.unitAmount = JString(<<"1">>)]))
        => /\ NoCalls
           /\ Len(responses) = 1
           /\ responses[1].status = 400
           /\ \E k \in 1..Len(responses[1].body.errors) :
                 responses[1].body.errors[k].field = "unitAmount"

\* C3: a creation request whose body violates a constraint of the schema
\* never calls the provider, whatever it is answered.
C3_ValidationBeforeSideEffects ==
    (route.kind = "create" /\ Violates(body)) => NoCalls

C3_Witness ==
    /\ route.kind = "create"
    /\ Violates(body)
    /\ body.unitAmount = JString(<<"a">>)
    /\ body.productName = JUndefined
    /\ Len(responses) = 1

\* C4: a valid creation request calls products.create, then prices.create
\* with the id of the product created, then paymentLinks.create with the id
\* of the price created, each once; when none of them fails it is answered
\* 201 with exactly the fields paymentLinkId and url.
C4_CreateSequenceAndBody ==
    (route.kind = "create" /\ ~Violates(body))
        => /\ Log # <<>>
           /\ IsPrefix(Ops(Log), CreateOps)
           /\ calls[CHOOSE c \in Modes : c # route.mode] = <<>>
           /\ Len(Log) >= 2 => product \in ProductIds /\ Log[2].product = product
           /\ Len(Log) >= 3 =>
                 /\ price \in PriceIds
                 /\ Len(Log[3].line_items) = 1
                 /\ Log[3].line_items[1].price = price
           /\ (hpc = "done" /\ error = NoError) =>
                 /\ Len(Log) = 3
                 /\ Len(responses) = 1
                 /\ responses[1].status = 201
                 /\ DOMAIN responses[1].body = {"paymentLinkId", "url"}
                 /\ \E l \in PaymentLinks :
                       /\ responses[1].body.paymentLinkId = l.id
                       /\ responses[1].body.url = l.url

C4_Witness ==
    /\ route = [kind |-> "create", mode |-> "test"]
    /\ hpc = "done"
    /\ Len(responses) = 1
    /\ responses[1].status = 201
    /\ product = "prod_2"
    /\ price = "price_1"

\* C5: when a provider call of a creation request fails, the steps after it
\* are not called, no step is called twice, and the request is answered 500
\* with the provider's message as error.
C5_ProviderFailureAborts ==
    (route.kind = "create" /\ error.kind = "StripeError")
        => /\ hpc = "done"
           /\ error.from \in {CreateOps[k] : k \in 1..3}
           /\ \A k \in 1..3 : error.from = CreateOps[k] => Ops(Log) = SubSeq(CreateOps, 1, k)
           /\ responses = <<[status |-> 500, body |-> [error |-> error.message]]>>

C5_Witness ==
    /\ route.kind = "create"
    /\ error = Caught("StripeError", "prices.create", "rate_limit")
    /\ Len(responses) = 1

\* C6: the list of a 200 report is, in the order of the listing, one record
\* for each listed intent that has status succeeded and for which
\* checkout.sessions.list returned a session; and a report request none of
\* whose provider calls failed is answered 200.
HasSession(id) ==
    \E i \in DOMAIN tasks :
        /\ tasks[i].intent.id = id
        /\ ~tasks[i].session.isNull
        /\ tasks[i].session.data # <<>>

Resolvable == SelectSeq(intents, LAMBDA it : it.status = "succeeded" /\ HasSession(it.id))

C6_ReportIsResolvableSubsequence ==
    (route.kind = "report" /\ hpc = "done" /\ error = NoError)
        => /\ Len(responses) = 1
           /\ responses[1].status = 200
           /\ LET list == responses[1].body.successfulPayments
              IN  /\ Len(list) = Len(Resolvable)
                  /\ \A k \in 1..Len(list) :
                        /\ list[k].id = Resolvable[k].id
                        /\ list[k].status = "succeeded"

C6_Witness ==
    /\ route.kind = "report"
    /\ Len(intents) = 2
    /\ \A k \in 1..2 : intents[k].status = "succeeded"
    /\ ~HasSession(1)
    /\ HasSession(2)
    /\ Len(responses) = 1
    /\ responses[1].status = 200
    /\ Len(responses[1].body.successfulPayments) = 1
    /\ responses[1].body.successfulPayments[1].id = 2

\* C7: the calls of a request are made on the client of the mode of its
\* route; the other client receives none.
C7_ModesIndependent ==
    \A c \in Modes :
        (route.kind # "none" /\ c # route.mode)
            => calls[c] = <<>> /\ \A i \in DOMAIN tasks : tasks[i].calls[c] = <<>>

C7_Witness ==
    /\ route = [kind |-> "report", mode |-> "test"]
    /\ Len(responses) = 1
    /\ responses[1].status = 500
    /\ \E i \in DOMAIN tasks : Len(tasks[i].calls["test"]) = 3

\* C8: the line item of paymentLinks.create carries quantity 1 when the
\* request has no quantity, and the number the quantity string denotes
\* when it has one.
C8_EffectiveQuantity ==
    (route.kind = "create" /\ Len(Log) = 3)
        => /\ Len(Log[3].line_items) = 1
           /\ body.quantity = JUndefined => Log[3].line_items[1].quantity = 1
           /\ body.quantity.t = "string" =>
                 /\ Log[3].line_items[1].quantity = ToNumber(body.quantity.s).v
                 /\ Log[3].line_items[1].quantity >= 1

C8_Witness ==
    /\ route.kind = "create"
    /\ Len(Log) = 3
    /\ body.quantity = JUndefined
    /\ Log[3].line_items[1].quantity = 1

\* C9: in every record of a 200 report, buyerEmail and buyerName are the
\* session's customer_details value when there is one, else the value of the
\* first charge's billing_details when there is one, else "N/A"; buyerPhone
\* is the session's customer_details.phone when there is one, else "N/A".
\* A value is there when it is a non-empty string.
Present(v) == v # Undefined /\ v # ""
FirstPresent(a, b) == IF Present(a) THEN a ELSE IF Present(b) THEN b ELSE "N/A"

C9_BuyerContactFallback ==
    \A r \in 1..Len(responses) :
        responses[r].status = 200 =>
            \A k \in 1..Len(responses[r].body.successfulPayments) :
                LET rec == responses[r].body.successfulPayments[k]
                    t == tasks[CHOOSE i \in DOMAIN tasks : tasks[i].intent.id = rec.id]
                    details == t.sessionWithItems.customer_details
                    charge == t.intent.charge
                IN  /\ rec.buyerEmail = FirstPresent(details.email, charge.email)
                    /\ rec.buyerName = FirstPresent(details.name, charge.name)
                    /\ rec.buyerPhone = FirstPresent(details.phone, Undefined)

C9_Witness ==
    /\ Len(responses) = 1
    /\ responses[1].status = 200
    /\ Len(tasks) = 1
    /\ ~tasks[1].sessionWithItems.customer_details.present
    /\ tasks[1].intent.charge = Charge("a@b.com", Undefined)
    /\ Len(responses[1].body.successfulPayments) = 1
    /\ responses[1].body.successfulPayments[1].buyerEmail = "a@b.com"
    /\ responses[1].body.successfulPayments[1].buyerName = "N/A"
    /\ responses[1].body.successfulPayments[1].buyerPhone = "N/A"

\* C10: a request is answered, and never twice, whatever the order in which
\* the calls of the callbacks return or fail after the answer.
C10_AnsweredExactlyOnce ==
    /\ [](Len(responses) <= 1)
    /\ (route.kind # "none") ~> (Len(responses) = 1)

C10_Witness ==
    /\ route.kind = "report"
    /\ Len(responses) = 1
    /\ responses[1].status = 500
    /\ Len(tasks) = 2
    /\ \A i \in 1..2 : tasks[i].pc = "rejected"

====
